---- MODULE Spec2Model ----
(***************************************************************************)
(* Milestone action endpoints of the trade platform server                 *)
(* (POST /api/milestones/confirm-order, ready-to-ship, goods-shipped,      *)
(* goods-arrived, goods-received) over the tables milestones,              *)
(* communications, orders and poinvoice.                                   *)
(*                                                                         *)
(* Spec     : requests are served one after the other; one action is one   *)
(*            whole handler, from pool.connect() to client.release().      *)
(* SpecConc : two pooled clients serve requests at the same time; one      *)
(*            action is one awaited client.query of a handler, under       *)
(*            PostgreSQL's default READ COMMITTED isolation.               *)
(* SpecBody : as Spec, with request bodies that may lack orderid or userid.*)
(* SpecManual, SpecList : as Spec, with the manual endpoints GET, POST and *)
(*            PUT /api/milestones.                                         *)
(* SpecSeal : generateSecurityHash, verifySecurityHash and POST            *)
(*            /api/verify-vpl applied to packing lists.                    *)
(***************************************************************************)
EXTENDS Integers, Sequences, FiniteSets, TLC

VARIABLES
  milestones,      \* table milestones: orderid -> its committed rows, in insertion order
  communications,  \* table communications: orderid -> its committed rows, in insertion order
  orders,          \* table orders: orderid -> orderstatus
  poinvoice,       \* table poinvoice: poinvoiceid -> [orderid, expectedstockstatus]
  res,             \* the last request answered and the HTTP status it got; in
                   \* SpecSeal the last operation, its input and its result
  client,          \* the pooled clients: the handler each runs and where it stands
  started,         \* SpecConc: the number of requests taken so far
  process,         \* the server process: its environment, where its start-up
                   \* stands, and its constant VPL_SECRET_KEY
  pobooking        \* table pobooking: its rows, in insertion order

vars == <<milestones, communications, orders, poinvoice, res, client, started,
          process, pobooking>>

(***************************************************************************)
(* Bounds                                                                  *)
(***************************************************************************)
\* Spec takes no request that would leave more rows than this in table milestones.
MaxRows == 5

\* SpecConc takes this many requests.
MaxRequests == 3

(***************************************************************************)
(* The data the requests range over                                        *)
(***************************************************************************)
\* A req.body field that is absent: falsy in the handler (!orderid), NULL as a
\* query parameter. Ids are positive.
Missing == 0

\* Orders with a row in table orders.
ExistingOrders == {1, 2}

\* Order ids a request may name; 3 has no row in table orders.
OrderIds == {1, 2, 3}

UserIds == {7, 8}

\* poinvoiceid -> orderid: order 1 has two invoices, order 2 has one.
InvoiceOrder == (1 :> 1) @@ (2 :> 1) @@ (3 :> 2)

Routes == {"confirm-order", "ready-to-ship", "goods-shipped", "goods-arrived",
           "goods-received"}

\* The canonical chain of milestone types.
Chain == <<"order_confirmed", "ready_to_ship", "goods_shipped", "goods_arrived",
           "goods_received">>

None == "none"

\* SQL NULL in a timestamp column.
Null == "NULL"

(***************************************************************************)
(* What each handler's SQL names                                           *)
(***************************************************************************)
\* The milestonetype the handler inserts.
MilestoneType(route) ==
  CASE route = "confirm-order"  -> "order_confirmed"
    [] route = "ready-to-ship"  -> "ready_to_ship"
    [] route = "goods-shipped"  -> "goods_shipped"
    [] route = "goods-arrived"  -> "goods_arrived"
    [] route = "goods-received" -> "goods_received"

\* Faulty variant of CheckedType: goods-arrived's check copied unchanged from
\* goods-shipped.
CheckedTypeCopied(route) ==
  CASE route = "confirm-order"  -> "order_confirmed"
    [] route = "ready-to-ship"  -> "order_confirmed"
    [] route = "goods-shipped"  -> "ready_to_ship"
    [] route = "goods-arrived"  -> "ready_to_ship"
    [] route = "goods-received" -> "goods_arrived"

\* The milestonetype the handler's SELECT COUNT(*) looks for.
CheckedType(route) ==
  CASE route = "confirm-order"  -> "order_confirmed"
    [] route = "ready-to-ship"  -> "order_confirmed"
    [] route = "goods-shipped"  -> "ready_to_ship"
    [] route = "goods-arrived"  -> "goods_shipped"
    [] route = "goods-received" -> "goods_arrived"

\* The expectedstockstatus the handler's UPDATE poinvoice sets.
InvoiceStatus(route) ==
  CASE route = "ready-to-ship"  -> "confirmed"
    [] route = "goods-shipped"  -> "shipped"
    [] route = "goods-arrived"  -> "arrived"
    [] route = "goods-received" -> "completed"
    [] OTHER                    -> None

\* The orderstatus the handler's UPDATE orders sets.
OrderStatus(route) ==
  CASE route = "confirm-order"  -> "Confirmed"
    [] route = "goods-shipped"  -> "Shipped"
    [] route = "goods-received" -> "Completed"
    [] OTHER                    -> None

\* The subject of the communication the handler inserts.
Subject(route) ==
  CASE route = "confirm-order"  -> "Order Confirmed"
    [] route = "ready-to-ship"  -> "Goods Ready to Ship"
    [] route = "goods-shipped"  -> "Goods Shipped"
    [] route = "goods-arrived"  -> "Goods Arrived at Destination"
    [] route = "goods-received" -> "Order Complete"

\* Faulty variant of Stmts: goods-arrived without its communication insert.
StmtsWithoutComm(route) ==
  CASE route = "confirm-order"  -> <<"milestone", "order", "comm">>
    [] route = "ready-to-ship"  -> <<"invoice", "milestone", "comm">>
    [] route = "goods-shipped"  -> <<"invoice", "milestone", "order", "comm">>
    [] route = "goods-arrived"  -> <<"invoice", "milestone">>
    [] route = "goods-received" -> <<"invoice", "milestone", "order", "comm">>

\* The handler's writing statements between its check and its COMMIT, in the
\* order the code issues them.
Stmts(route) ==
  CASE route = "confirm-order"  -> <<"milestone", "order", "comm">>
    [] route = "ready-to-ship"  -> <<"invoice", "milestone", "comm">>
    [] route = "goods-shipped"  -> <<"invoice", "milestone", "order", "comm">>
    [] route = "goods-arrived"  -> <<"invoice", "milestone", "comm">>
    [] route = "goods-received" -> <<"invoice", "milestone", "order", "comm">>

(***************************************************************************)
(* The database: a record of the four tables, so that a transaction's      *)
(* statements are functions from database to database                      *)
(***************************************************************************)
DB == [milestones |-> milestones, communications |-> communications,
       orders |-> orders, poinvoice |-> poinvoice]

\* The rows of a table WHERE orderid = o. A row's orderid REFERENCES
\* orders(orderid), so an id without an order has none.
RowsOf(table, o) == IF o \in DOMAIN table THEN table[o] ELSE <<>>

\* SELECT COUNT(*) FROM milestones WHERE ... milestonetype = <type>, with or
\* without AND status = 'completed'.
Count(rows, type, completedOnly) ==
  Cardinality({i \in DOMAIN rows :
                 /\ rows[i].milestonetype = type
                 /\ completedOnly => rows[i].status = "completed"})

\* The number of rows of a table.
RECURSIVE SumLen(_, _)
SumLen(table, S) ==
  IF S = {} THEN 0
  ELSE LET o == CHOOSE x \in S : TRUE
       IN  Len(table[o]) + SumLen(table, S \ {o})

Size(table) == SumLen(table, DOMAIN table)

\* Faulty variant of MilestoneRow: completedbyuserid bound to $1 instead of $2.
MilestoneRowWrongParam(route, o, u) ==
  [orderid |-> o, userid |-> u, milestonetype |-> MilestoneType(route),
   status |-> "completed", completeddate |-> "NOW()", completedbyuserid |-> o,
   isvisible |-> TRUE]

\* INSERT INTO milestones (...) VALUES ($1, $2, <type>, 'completed', ..., NOW(), $2, ...);
\* isvisible takes its column default.
MilestoneRow(route, o, u) ==
  [orderid |-> o, userid |-> u, milestonetype |-> MilestoneType(route),
   status |-> "completed", completeddate |-> "NOW()", completedbyuserid |-> u,
   isvisible |-> TRUE]

\* An INSERT INTO milestones: createdat is NOW(), later than the createdat of
\* every row the table holds. The model keeps it as the row's rank among the
\* rows of its order.
Insert(rows, row) == Append(rows, row @@ [createdat |-> Len(rows) + 1])

\* INSERT INTO communications (...) VALUES ($1, $2, 'milestone_update', <subject>, ...)
CommunicationRow(route, o, u) ==
  [orderid |-> o, userid |-> u, messagetype |-> "milestone_update",
   subject |-> Subject(route)]

\* Faulty variant of UpdateInvoices: the UPDATE without its WHERE clause.
UpdateInvoicesNoWhere(inv, o, status) ==
  [i \in DOMAIN inv |-> [inv[i] EXCEPT !.expectedstockstatus = status]]

\* UPDATE poinvoice SET expectedstockstatus = <status> WHERE orderid = $1
UpdateInvoices(inv, o, status) ==
  [i \in DOMAIN inv |->
     IF inv[i].orderid = o THEN [inv[i] EXCEPT !.expectedstockstatus = status]
     ELSE inv[i]]

\* Faulty variant of UpdateOrder: the UPDATE without its WHERE clause.
UpdateOrderNoWhere(ord, o, status) == [x \in DOMAIN ord |-> status]

\* UPDATE orders SET orderstatus = <status> WHERE orderid = $1
UpdateOrder(ord, o, status) ==
  [x \in DOMAIN ord |-> IF x = o THEN status ELSE ord[x]]

\* One writing statement of a handler, applied to the database the
\* transaction sees.
ApplyStmt(kind, route, db, o, u) ==
  CASE kind = "invoice" ->
         [db EXCEPT !.poinvoice = UpdateInvoices(@, o, InvoiceStatus(route))]
    [] kind = "milestone" ->
         [db EXCEPT !.milestones[o] = Insert(@, MilestoneRow(route, o, u))]
    [] kind = "order" ->
         [db EXCEPT !.orders = UpdateOrder(@, o, OrderStatus(route))]
    [] kind = "comm" ->
         [db EXCEPT !.communications[o] = Append(@, CommunicationRow(route, o, u))]

\* The schema's constraints on an insert: orderid and userid are NOT NULL, and
\* orderid REFERENCES orders(orderid). The milestones table has no UNIQUE
\* constraint. An UPDATE that matches no row is not an error.
StmtFails(kind, db, o, u) ==
  /\ kind \in {"milestone", "comm"}
  /\ (o = Missing \/ u = Missing \/ o \notin DOMAIN db.orders)

\* Faulty variant of Rejected: the count of the other routes compared with
\* > 0 instead of === 0.
RejectedInverted(route, table, o) ==
  IF route = "confirm-order"
  THEN Count(RowsOf(table, o), "order_confirmed", FALSE) > 0
  ELSE Count(RowsOf(table, o), CheckedType(route), TRUE) > 0

\* The handler's check after BEGIN, on the rows the SELECT sees: confirm-order
\* is refused when an order_confirmed row of any status exists, each other
\* route when no completed row of the type before its own exists.
Rejected(route, table, o) ==
  IF route = "confirm-order"
  THEN Count(RowsOf(table, o), "order_confirmed", FALSE) > 0
  ELSE Count(RowsOf(table, o), CheckedType(route), TRUE) = 0

\* if (!orderid || !userid) return res.status(400): only confirm-order has it.
Invalid(route, o, u) ==
  route = "confirm-order" /\ (o = Missing \/ u = Missing)

\* The handler's statements from the k-th on, run on db until a constraint
\* fails one of them.
RECURSIVE Exec(_, _, _, _, _)
Exec(route, db, o, u, k) ==
  IF k > Len(Stmts(route)) THEN [db |-> db, failed |-> FALSE]
  ELSE IF StmtFails(Stmts(route)[k], db, o, u) THEN [db |-> db, failed |-> TRUE]
       ELSE Exec(route, ApplyStmt(Stmts(route)[k], route, db, o, u), o, u, k + 1)

\* Faulty variant of Rollback: the statements were run outside the transaction
\* (on the pool), so ROLLBACK undoes nothing.
RollbackKeepsWork(before, work) == work

\* ROLLBACK: the database is what it was at BEGIN; the transaction's work is dropped.
Rollback(before, work) == before

\* Faulty variant of Commit: the response is sent before COMMIT is awaited and
\* the COMMIT is lost, so the work never becomes the database.
CommitDropsWork(before, work) == before

\* COMMIT: the transaction's work becomes the database.
Commit(before, work) == work

\* A whole handler on a store that answers every query: the database it leaves
\* and the status it answers. A statement that violates a constraint throws
\* into catch (err): ROLLBACK, status 500.
Outcome(route, db, o, u) ==
  IF Invalid(route, o, u) THEN [db |-> db, status |-> 400]
  ELSE IF Rejected(route, db.milestones, o)
       THEN [db |-> Rollback(db, db), status |-> 400]
       ELSE LET x == Exec(route, db, o, u, 1)
            IN  IF x.failed THEN [db |-> Rollback(db, x.db), status |-> 500]
                ELSE [db |-> Commit(db, x.db), status |-> 200]

(***************************************************************************)
(* JavaScript values: a string or a number carries its text, an object its *)
(* properties in insertion order, an array its items.                      *)
(***************************************************************************)
Str(s) == [type |-> "string", text |-> <<s>>]
Num(n) == [type |-> "number", text |-> <<n>>]
Obj(props) == [type |-> "object", props |-> props]
Arr(items) == [type |-> "array", items |-> items]
Undefined == [type |-> "undefined"]
JsNull == [type |-> "null"]

\* !value
Falsy(value) ==
  \/ value.type \in {"undefined", "null"}
  \/ value.type = "string" /\ value.text = <<"">>
  \/ value.type = "number" /\ value.text = <<"0">>

\* a || b
Or(a, b) == IF Falsy(a) THEN b ELSE a

(***************************************************************************)
(* The server process                                                      *)
(***************************************************************************)
\* The environments a process is started in: VPL_SECRET_KEY set, or not set.
Envs == {[VPL_SECRET_KEY |-> Str("k-9f2c")], [VPL_SECRET_KEY |-> Undefined]}

\* The key compiled into the source.
DefaultKey == Str("your-super-secret-vpl-key-change-this-in-production")

\* const VPL_SECRET_KEY = process.env.VPL_SECRET_KEY || '...'
SecretKey(env) == Or(env.VPL_SECRET_KEY, DefaultKey)

\* A process that has run the script down to app.listen and serves requests.
Listening(env) ==
  [pc |-> "listening", env |-> env, VPL_SECRET_KEY |-> SecretKey(env)]

\* The process of the specifications that do not study its start-up: started
\* without the variable.
Serving == Listening([VPL_SECRET_KEY |-> Undefined])

(***************************************************************************)
(* Spec: one request at a time, the store answers every query              *)
(***************************************************************************)
Idle == [pc |-> "idle"]

NoResponse == [route |-> None, orderid |-> Missing, userid |-> Missing, status |-> 0]

Clients == {1, 2}

\* The database before any milestone action: orders are Pending, invoices
\* have the column default 'planning'.
EmptyDB ==
  [milestones |-> [o \in ExistingOrders |-> <<>>],
   communications |-> [o \in ExistingOrders |-> <<>>],
   orders |-> [o \in ExistingOrders |-> "Pending"],
   poinvoice |-> [i \in DOMAIN InvoiceOrder |->
                    [orderid |-> InvoiceOrder[i], expectedstockstatus |-> "planning"]]]

Init ==
  /\ milestones = EmptyDB.milestones
  /\ communications = EmptyDB.communications
  /\ orders = EmptyDB.orders
  /\ poinvoice = EmptyDB.poinvoice
  /\ res = NoResponse
  /\ client = [c \in Clients |-> Idle]
  /\ started = 0
  /\ process = Serving
  /\ pobooking = <<>>

\* One request served from start to end.
Request(route, o, u) ==
  LET out == Outcome(route, DB, o, u)
  IN  /\ Size(out.db.milestones) <= MaxRows
      /\ milestones' = out.db.milestones
      /\ communications' = out.db.communications
      /\ orders' = out.db.orders
      /\ poinvoice' = out.db.poinvoice
      /\ res' = [route |-> route, orderid |-> o, userid |-> u, status |-> out.status]
      /\ UNCHANGED <<client, started, process, pobooking>>

\* The inputs of a request: the body's orderid and userid.
Serve(route) ==
  \E o \in OrderIds, u \in UserIds : Request(route, o, u)

ConfirmOrder == Serve("confirm-order")
ReadyToShip == Serve("ready-to-ship")
GoodsShipped == Serve("goods-shipped")
GoodsArrived == Serve("goods-arrived")
GoodsReceived == Serve("goods-received")

Next == ConfirmOrder \/ ReadyToShip \/ GoodsShipped \/ GoodsArrived \/ GoodsReceived

Spec == Init /\ [][Next]_vars

(***************************************************************************)
(* SpecBody: one request at a time, the request body may lack orderid or   *)
(* userid                                                                  *)
(***************************************************************************)
\* const { orderid, userid } = req.body: each field is an id or is absent.
BodyOrderIds == {1, Missing}
BodyUserIds == {7, Missing}

ServeBody(route) ==
  \E o \in BodyOrderIds, u \in BodyUserIds : Request(route, o, u)

NextBody == \E route \in Routes : ServeBody(route)

SpecBody == Init /\ [][NextBody]_vars

(***************************************************************************)
(* SpecManual: the manual milestone endpoints GET, POST and PUT            *)
(* /api/milestones next to the five actions, one request at a time         *)
(***************************************************************************)
\* SpecManual takes no request that would leave more rows than this in table
\* milestones.
MaxManualRows == 3

\* The ids and fields the manual requests name.
ManualOrderIds == {1, Missing}
ManualUserIds == {7}
ManualTypes == {"order_confirmed", "goods_received"}
ManualStatuses == {"pending", "completed"}

\* req.body.title: a text, or empty (falsy).
Titles == {"Deposit paid", ""}

\* INSERT INTO milestones (...) VALUES ($1, $2, $3, 'pending', $4, ...):
\* completeddate and completedbyuserid stay NULL, isvisible takes its default.
ManualRow(o, u, type) ==
  [orderid |-> o, userid |-> u, milestonetype |-> type, status |-> "pending",
   completeddate |-> Null, completedbyuserid |-> Missing, isvisible |-> TRUE]

\* A row that was hidden out of band (UPDATE milestones SET isvisible = FALSE);
\* no handler writes the column.
HiddenRow == [ManualRow(1, 7, "goods_received") EXCEPT !.isvisible = FALSE]

\* The database GET /api/milestones is studied on: empty, or with the hidden row.
InitList ==
  /\ \E hidden \in BOOLEAN :
       milestones = [EmptyDB.milestones EXCEPT
                       ![1] = IF hidden THEN Insert(<<>>, HiddenRow) ELSE <<>>]
  /\ communications = EmptyDB.communications
  /\ orders = EmptyDB.orders
  /\ poinvoice = EmptyDB.poinvoice
  /\ res = NoResponse
  /\ client = [c \in Clients |-> Idle]
  /\ started = 0
  /\ process = Serving
  /\ pobooking = <<>>

\* One of the five milestone actions.
Action(route) ==
  \E o \in ManualOrderIds \ {Missing}, u \in ManualUserIds :
    /\ Size(Outcome(route, DB, o, u).db.milestones) <= MaxManualRows
    /\ Request(route, o, u)

\* POST /api/milestones.
CreateMilestone(o, u, type, title) ==
  /\ Size(milestones) < MaxManualRows
  /\ IF o = Missing \/ u = Missing \/ title = ""
     THEN /\ res' = [route |-> "POST /api/milestones", orderid |-> o,
                     userid |-> u, status |-> 400]
          /\ UNCHANGED milestones
     ELSE IF StmtFails("milestone", DB, o, u)
          THEN /\ res' = [route |-> "POST /api/milestones", orderid |-> o,
                          userid |-> u, status |-> 500]
               /\ UNCHANGED milestones
          ELSE /\ res' = [route |-> "POST /api/milestones", orderid |-> o,
                          userid |-> u, status |-> 201]
               /\ milestones' = [milestones EXCEPT
                                   ![o] = Insert(@, ManualRow(o, u, type))]
  /\ UNCHANGED <<communications, orders, poinvoice, client, started, process, pobooking>>

\* Faulty variant of SetStatus: completeddate and completedbyuserid are kept
\* when the status is not 'completed'.
SetStatusKeepsDate(row, status, by) ==
  IF status = "completed"
  THEN [row EXCEPT !.status = status, !.completeddate = "NOW()",
                   !.completedbyuserid = by]
  ELSE [row EXCEPT !.status = status]

\* The two UPDATE milestones of PUT /api/milestones/:milestoneId, on the row
\* they match.
SetStatus(row, status, by) ==
  IF status = "completed"
  THEN [row EXCEPT !.status = status, !.completeddate = "NOW()",
                   !.completedbyuserid = by]
  ELSE [row EXCEPT !.status = status, !.completeddate = Null,
                   !.completedbyuserid = by]

\* PUT /api/milestones/:milestoneId. The milestoneid names the i-th row of
\* order o; an id that matches no row updates nothing and is answered 200 too.
UpdateMilestone(o, i, status, by) ==
  /\ milestones' =
       IF i \in DOMAIN milestones[o]
       THEN [milestones EXCEPT ![o][i] = SetStatus(@, status, by)]
       ELSE milestones
  /\ res' = [route |-> "PUT /api/milestones/:milestoneId", orderid |-> o,
             userid |-> by, status |-> 200, milestoneid |-> i]
  /\ UNCHANGED <<communications, orders, poinvoice, client, started, process, pobooking>>

\* WHERE m.orderid = $1 AND m.isvisible = TRUE
Visible(rows, o) ==
  {rows[i] : i \in {j \in DOMAIN rows : rows[j].orderid = o /\ rows[j].isvisible}}

\* Faulty variant of OrderByCreatedAt: ordered by the place of the type in
\* the chain, then by createdat.
RECURSIVE OrderByType(_)
OrderByType(S) ==
  IF S = {} THEN <<>>
  ELSE LET Rank(r) == CHOOSE k \in DOMAIN Chain : Chain[k] = r.milestonetype
           first == CHOOSE r \in S :
                      \A x \in S : \/ Rank(r) < Rank(x)
                                   \/ Rank(r) = Rank(x) /\ r.createdat <= x.createdat
       IN  <<first>> \o OrderByType(S \ {first})

\* ORDER BY m.createdat ASC
RECURSIVE OrderByCreatedAt(_)
OrderByCreatedAt(S) ==
  IF S = {} THEN <<>>
  ELSE LET first == CHOOSE r \in S : \A x \in S : r.createdat <= x.createdat
       IN  <<first>> \o OrderByCreatedAt(S \ {first})

\* GET /api/milestones?orderid=...
ListMilestones(o) ==
  /\ res' = IF o = Missing
            THEN [route |-> "GET /api/milestones", orderid |-> o,
                  userid |-> Missing, status |-> 400, body |-> <<>>]
            ELSE [route |-> "GET /api/milestones", orderid |-> o,
                  userid |-> Missing, status |-> 200,
                  body |-> OrderByCreatedAt(Visible(RowsOf(milestones, o), o))]
  /\ UNCHANGED <<milestones, communications, orders, poinvoice, client, started, process, pobooking>>

NextManual ==
  \/ \E route \in Routes : Action(route)
  \/ \E o \in ManualOrderIds, u \in ManualUserIds, type \in ManualTypes,
        title \in Titles : CreateMilestone(o, u, type, title)
  \/ \E o \in ManualOrderIds \ {Missing}, i \in 1..MaxManualRows,
        status \in ManualStatuses, by \in ManualUserIds :
       UpdateMilestone(o, i, status, by)
  \/ \E o \in ManualOrderIds : ListMilestones(o)

SpecManual == Init /\ [][NextManual]_vars

\* SpecList: the same requests, on a database that may hold a hidden row.
SpecList == InitList /\ [][NextManual]_vars

(***************************************************************************)
(* SpecConc: two clients, one awaited query per step, READ COMMITTED.      *)
(* A transaction's own writes are the first k statements of its handler;   *)
(* other transactions see them only after COMMIT. Any query may fail       *)
(* (the store is unreachable, the connection is lost).                     *)
(***************************************************************************)
\* The ids the concurrent requests name.
ConcOrders == {1, 2}
ConcUsers == {7}

\* The routes in the order of the chain.
RouteOf == <<"confirm-order", "ready-to-ship", "goods-shipped", "goods-arrived",
             "goods-received">>

\* The database after the first n actions of the chain were served one after
\* the other for order 1 by user 7.
RECURSIVE AfterChain(_)
AfterChain(n) ==
  IF n = 0 THEN EmptyDB ELSE Outcome(RouteOf[n], AfterChain(n - 1), 1, 7).db

InitConc ==
  \E n \in 0..Len(RouteOf) :
    /\ milestones = AfterChain(n).milestones
    /\ communications = AfterChain(n).communications
    /\ orders = AfterChain(n).orders
    /\ poinvoice = AfterChain(n).poinvoice
    /\ res = NoResponse
    /\ client = [c \in Clients |-> Idle]
    /\ started = 0
    /\ process = Serving
    /\ pobooking = <<>>

\* The database a transaction sees after its first k statements: the committed
\* rows and its own writes.
RECURSIVE Work(_, _, _, _, _)
Work(route, db, o, u, k) ==
  IF k = 0 THEN db
  ELSE ApplyStmt(Stmts(route)[k], route, Work(route, db, o, u, k - 1), o, u)

InTransaction(c) == client[c].pc \in {"stmt", "COMMIT", "catch"}

\* Whether client d has run a statement of this kind in its open transaction.
HasRun(d, kind) ==
  /\ InTransaction(d)
  /\ \E j \in 1..client[d].k : Stmts(client[d].route)[j] = kind

\* An UPDATE waits while another open transaction has updated the same rows
\* (row locks are held until COMMIT or ROLLBACK). Inserts wait for nothing.
Blocked(c, kind) ==
  \E d \in Clients \ {c} :
    /\ HasRun(d, kind)
    /\ client[d].orderid = client[c].orderid
    /\ \/ kind = "invoice" /\ \E i \in DOMAIN poinvoice :
                                poinvoice[i].orderid = client[c].orderid
       \/ kind = "order" /\ client[c].orderid \in DOMAIN orders

SetDB(db) ==
  /\ milestones' = db.milestones
  /\ communications' = db.communications
  /\ orders' = db.orders
  /\ poinvoice' = db.poinvoice

\* res.status(...).json(...), then finally: client.release().
Respond(c, status) ==
  /\ res' = [route |-> client[c].route, orderid |-> client[c].orderid,
             userid |-> client[c].userid, status |-> status]
  /\ client' = [client EXCEPT ![c] = Idle]

Goto(c, pc) == client' = [client EXCEPT ![c].pc = pc]

\* A request arrives: the validation of confirm-order, pool.connect(), BEGIN.
Start(c) ==
  /\ client[c].pc = "idle"
  /\ started < MaxRequests
  /\ started' = started + 1
  /\ \E route \in Routes, o \in ConcOrders, u \in ConcUsers, fails \in BOOLEAN :
       IF Invalid(route, o, u)
       THEN /\ res' = [route |-> route, orderid |-> o, userid |-> u, status |-> 400]
            /\ UNCHANGED client
       ELSE /\ client' = [client EXCEPT ![c] =
                            [pc |-> IF fails THEN "catch" ELSE "SELECT",
                             route |-> route, orderid |-> o, userid |-> u, k |-> 0]]
            /\ UNCHANGED res
  /\ UNCHANGED <<milestones, communications, orders, poinvoice, process, pobooking>>

\* The handler's SELECT COUNT(*) and the branch on it.
Select(c) ==
  /\ client[c].pc = "SELECT"
  /\ \E fails \in BOOLEAN :
       Goto(c, IF fails THEN "catch"
               ELSE IF Rejected(client[c].route, milestones, client[c].orderid)
                    THEN "ROLLBACK" ELSE "stmt")
  /\ UNCHANGED <<milestones, communications, orders, poinvoice, res, started, process, pobooking>>

\* The refusing branch: ROLLBACK, status 400.
Refuse(c) ==
  /\ client[c].pc = "ROLLBACK"
  /\ \E fails \in BOOLEAN :
       IF fails THEN Goto(c, "catch") /\ UNCHANGED res
       ELSE Respond(c, 400)
  /\ SetDB(Rollback(DB, DB))
  /\ UNCHANGED <<started, process, pobooking>>

\* The next writing statement of the handler.
Stmt(c) ==
  LET r == client[c].route
      kind == Stmts(r)[client[c].k + 1]
      view == Work(r, DB, client[c].orderid, client[c].userid, client[c].k)
  IN  /\ client[c].pc = "stmt"
      /\ ~Blocked(c, kind)
      /\ \E fails \in BOOLEAN :
           IF fails \/ StmtFails(kind, view, client[c].orderid, client[c].userid)
           THEN Goto(c, "catch")
           ELSE client' = [client EXCEPT
                  ![c].k = @ + 1,
                  ![c].pc = IF client[c].k + 1 = Len(Stmts(r)) THEN "COMMIT" ELSE "stmt"]
      /\ UNCHANGED <<milestones, communications, orders, poinvoice, res, started, process, pobooking>>

\* COMMIT, then status 200.
CommitStep(c) ==
  /\ client[c].pc = "COMMIT"
  /\ \E fails \in BOOLEAN :
       IF fails
       THEN /\ Goto(c, "catch")
            /\ UNCHANGED <<milestones, communications, orders, poinvoice, res>>
       ELSE /\ SetDB(Commit(DB, Work(client[c].route, DB, client[c].orderid,
                                     client[c].userid, client[c].k)))
            /\ Respond(c, 200)
  /\ UNCHANGED <<started, process, pobooking>>

\* catch (err): ROLLBACK, then status 500; when the ROLLBACK throws too, no
\* response is sent. finally: client.release().
Catch(c) ==
  /\ client[c].pc = "catch"
  /\ SetDB(Rollback(DB, Work(client[c].route, DB, client[c].orderid,
                             client[c].userid, client[c].k)))
  /\ \E fails \in BOOLEAN : Respond(c, IF fails THEN 0 ELSE 500)
  /\ UNCHANGED <<started, process, pobooking>>

NextConc ==
  \E c \in Clients :
    \/ Start(c)
    \/ Select(c)
    \/ Refuse(c)
    \/ Stmt(c)
    \/ CommitStep(c)
    \/ Catch(c)

SpecConc == InitConc /\ [][NextConc]_vars

(***************************************************************************)
(* The seal of a virtual packing list (VPL): generateSecurityHash,         *)
(* verifySecurityHash and POST /api/verify-vpl.                            *)
(*                                                                         *)
(***************************************************************************)

\* Object.keys(o): the own property names, in insertion order.
Keys(o) == [i \in DOMAIN o.props |-> o.props[i].key]

Has(o, k) == \E i \in DOMAIN o.props : o.props[i].key = k

\* o[k]
Get(o, k) ==
  IF Has(o, k)
  THEN o.props[CHOOSE i \in DOMAIN o.props : o.props[i].key = k].value
  ELSE Undefined

\* delete o[k]
Delete(o, k) == Obj(SelectSeq(o.props, LAMBDA e : e.key # k))

\* { ...o, [k]: v }: an own key keeps its place, a new key goes last.
With(o, k, v) ==
  IF Has(o, k)
  THEN Obj([i \in DOMAIN o.props |->
              IF o.props[i].key = k THEN [key |-> k, value |-> v] ELSE o.props[i]])
  ELSE Obj(Append(o.props, [key |-> k, value |-> v]))

\* The property names of the packing lists, in the order of their UTF-16
\* code units, which is the order Array.prototype.sort() puts them in.
KeyOrder == <<"incoterm", "lineItems", "partNumber", "portOfLoading", "quantity",
              "referenceNumber", "securityHash", "shipping">>

ToSet(seq) == {seq[i] : i \in DOMAIN seq}

\* Faulty variant of Sort: the keys left in insertion order.
Unsorted(keys) == keys

\* keys.sort()
Sort(keys) == SelectSeq(KeyOrder, LAMBDA k : k \in ToSet(keys))

\* JSON.stringify(value, replacer) with an array replacer, as the text's
\* tokens. The array is the list of property names to write: of every object,
\* at every depth, only the properties named in it are written, in its order.
\* Array items are all written.
RECURSIVE Stringify(_, _)
RECURSIVE StringifyProps(_, _, _, _)
RECURSIVE StringifyItems(_, _, _)
Stringify(value, replacer) ==
  CASE value.type = "string" -> <<"\"">> \o value.text \o <<"\"">>
    [] value.type = "number" -> value.text
    [] value.type = "array"  ->
         <<"[">> \o StringifyItems(value.items, replacer, 1) \o <<"]">>
    [] value.type = "object" ->
         <<"{">> \o StringifyProps(value, replacer, 1, TRUE) \o <<"}">>

\* The properties of object o named by replacer[k..], comma-separated.
StringifyProps(o, replacer, k, first) ==
  IF k > Len(replacer) THEN <<>>
  ELSE IF ~Has(o, replacer[k]) THEN StringifyProps(o, replacer, k + 1, first)
       ELSE (IF first THEN <<>> ELSE <<",">>)
            \o <<"\"", replacer[k], "\"", ":">>
            \o Stringify(Get(o, replacer[k]), replacer)
            \o StringifyProps(o, replacer, k + 1, FALSE)

\* The items[i..] of an array, comma-separated.
StringifyItems(items, replacer, i) ==
  IF i > Len(items) THEN <<>>
  ELSE (IF i = 1 THEN <<>> ELSE <<",">>)
       \o Stringify(items[i], replacer)
       \o StringifyItems(items, replacer, i + 1)

\* The constant VPL_SECRET_KEY of the running process.
VPL_SECRET_KEY == process.VPL_SECRET_KEY

\* crypto.createHmac('sha256', key).update(data).digest('hex'): a string.
\* HMAC-SHA256 is taken to be free of collisions: the digest stands for its
\* key and data.
Hmac(key, data) ==
  [type |-> "string", text |-> <<"hmac-sha256">> \o key.text \o data]

\* Faulty variant of CleanData: the hash is left in the copy.
CleanDataKeepsHash(packingListData) == packingListData

\* const cleanData = { ...packingListData }; delete cleanData.securityHash;
CleanData(packingListData) == Delete(packingListData, "securityHash")

generateSecurityHash(packingListData) ==
  LET cleanData == CleanData(packingListData)
      dataString == Stringify(cleanData, Sort(Keys(cleanData)))
  IN  Hmac(VPL_SECRET_KEY, dataString)

\* uploadedHash?.substring(0, 8) throws a TypeError when uploadedHash is
\* neither undefined nor a string.
Throws(uploadedHash) == uploadedHash.type \notin {"undefined", "string"}

\* Faulty variant of StrictEquals.
StrictNotEquals(a, b) == a # b

\* a === b
StrictEquals(a, b) == a = b

verifySecurityHash(packingListData) ==
  LET uploadedHash == Get(packingListData, "securityHash")
      calculatedHash == generateSecurityHash(packingListData)
      isValid == StrictEquals(uploadedHash, calculatedHash)
  IN  IF Throws(uploadedHash)
      THEN [isValid |-> FALSE,
            error |-> "uploadedHash?.substring is not a function"]
      ELSE [isValid |-> isValid, uploadedHash |-> uploadedHash,
            calculatedHash |-> calculatedHash]

\* POST /api/verify-vpl: the status and the JSON it answers. Its catch (500)
\* is not reached: verifySecurityHash catches what it throws.
VerifyVplResponse(vplData) ==
  IF Falsy(vplData) \/ Falsy(Get(vplData, "securityHash"))
  THEN [status |-> 400, success |-> FALSE]
  ELSE LET verification == verifySecurityHash(vplData)
       IN  IF verification.isValid
           THEN [status |-> 200, success |-> TRUE, isValid |-> TRUE]
           ELSE [status |-> 400, success |-> FALSE, isValid |-> FALSE]

(***************************************************************************)
(* SpecSeal: the packing lists the three operations are applied to         *)
(***************************************************************************)
\* An object with its properties inserted in the given order or in the
\* reverse order.
Reverse(seq) == [i \in DOMAIN seq |-> seq[Len(seq) + 1 - i]]
Ordered(props, reversed) == Obj(IF reversed THEN Reverse(props) ELSE props)

\* A line of lineItems.
LineItem(quantity, reversed) ==
  Ordered(<<[key |-> "partNumber", value |-> Str("P-100")],
            [key |-> "quantity", value |-> Num(quantity)]>>, reversed)

\* A packing list as POST /api/generate-vpl builds it, cut down to one
\* top-level scalar, one nested object and the line items.
VplData(referenceNumber, incoterm, quantity, topReversed, nestedReversed) ==
  Ordered(<<[key |-> "referenceNumber", value |-> Str(referenceNumber)],
            [key |-> "shipping",
             value |-> Ordered(<<[key |-> "portOfLoading", value |-> Str("Durban")],
                                 [key |-> "incoterm", value |-> Str(incoterm)]>>,
                               nestedReversed)],
            [key |-> "lineItems",
             value |-> Arr(<<LineItem(quantity, nestedReversed)>>)]>>,
          topReversed)

Payloads ==
  {VplData(r, t, q, a, b) : r \in {"VPL-1", "VPL-2"}, t \in {"FOB", "CIF"},
                            q \in {"10", "11"}, a \in BOOLEAN, b \in BOOLEAN}

\* The securityHash a document may carry: the seal of a packing list, a
\* string that is no seal, the empty string, or a number.
CarriedHashes ==
  {generateSecurityHash(p) : p \in Payloads}
    \cup {Str("0000"), Str(""), Num("12345")}

\* The packing lists with and without a securityHash.
Documents ==
  Payloads \cup {With(p, "securityHash", h) : p \in Payloads, h \in CarriedHashes}

\* What the three operations leave alone.
NoStore == <<milestones, communications, orders, poinvoice, client, started, process, pobooking>>

Generate ==
  /\ process.pc = "listening"
  /\ \E d \in Documents :
       res' = [route |-> "generateSecurityHash", input |-> d,
               output |-> generateSecurityHash(d)]
  /\ UNCHANGED NoStore

Verify ==
  /\ process.pc = "listening"
  /\ \E d \in Documents :
       res' = [route |-> "verifySecurityHash", input |-> d,
               output |-> verifySecurityHash(d)]
  /\ UNCHANGED NoStore

VerifyVpl ==
  /\ process.pc = "listening"
  /\ \E vplData \in Documents \cup {Undefined} :
       res' = [route |-> "POST /api/verify-vpl", input |-> vplData,
               output |-> VerifyVplResponse(vplData)]
  /\ UNCHANGED NoStore

NextSeal == Generate \/ Verify \/ VerifyVpl

SpecSeal == Init /\ [][NextSeal]_vars

(***************************************************************************)
(* SpecStart: the process from its start to app.listen, then the seal      *)
(* operations                                                              *)
(***************************************************************************)
InitStart ==
  /\ milestones = EmptyDB.milestones
  /\ communications = EmptyDB.communications
  /\ orders = EmptyDB.orders
  /\ poinvoice = EmptyDB.poinvoice
  /\ res = NoResponse
  /\ client = [c \in Clients |-> Idle]
  /\ started = 0
  /\ \E env \in Envs :
       process = [pc |-> "start", env |-> env, VPL_SECRET_KEY |-> Undefined]
  /\ pobooking = <<>>

\* The script from its first line to app.listen(port, '0.0.0.0', ...): no
\* statement of it reads VPL_SECRET_KEY but its definition, and none exits.
Listen ==
  /\ process.pc = "start"
  /\ process' = Listening(process.env)
  /\ UNCHANGED <<milestones, communications, orders, poinvoice, res, client,
                 started, pobooking>>

NextStart == Listen \/ Generate \/ Verify \/ VerifyVpl

SpecStart == InitStart /\ [][NextStart]_vars

(***************************************************************************)
(* The booking status codec mapStatusToInt / mapStatusToString and the     *)
(* booking endpoints that persist its result                               *)
(***************************************************************************)
\* The labels of the codes 1..5, and the codes as JavaScript writes them.
StatusLabels == <<"Pending", "Confirmed", "In Transit", "Delivered", "Cancelled">>
StatusCodes == <<"1", "2", "3", "4", "5">>

\* Property names every object literal inherits from Object.prototype.
ObjectPrototypeKeys == {"constructor", "toString", "valueOf", "hasOwnProperty"}

\* The value of an inherited method.
Function == [type |-> "function"]

\* typeof value
TypeOf(value) == IF value.type \in {"null", "array"} THEN "object" ELSE value.type

\* The name a value is looked up under: obj[value] turns value into a string.
ToPropertyKey(value) ==
  IF value.type \in {"string", "number"} THEN value.text[1] ELSE value.type

\* Faulty variant of LabelToCode: 'In Transit' and 'Delivered' exchanged.
LabelToCodeSwapped(key) ==
  IF \E i \in DOMAIN StatusLabels : StatusLabels[i] = key
  THEN LET i == CHOOSE j \in DOMAIN StatusLabels : StatusLabels[j] = key
       IN  Num(StatusCodes[IF i = 3 THEN 4 ELSE IF i = 4 THEN 3 ELSE i])
  ELSE IF key \in ObjectPrototypeKeys THEN Function ELSE Undefined

\* statusMap[key] of mapStatusToInt: an own property, an inherited one, or
\* undefined.
LabelToCode(key) ==
  IF \E i \in DOMAIN StatusLabels : StatusLabels[i] = key
  THEN Num(StatusCodes[CHOOSE i \in DOMAIN StatusLabels : StatusLabels[i] = key])
  ELSE IF key \in ObjectPrototypeKeys THEN Function ELSE Undefined

\* statusMap[key] of mapStatusToString.
CodeToLabel(key) ==
  IF \E i \in DOMAIN StatusCodes : StatusCodes[i] = key
  THEN Str(StatusLabels[CHOOSE i \in DOMAIN StatusCodes : StatusCodes[i] = key])
  ELSE IF key \in ObjectPrototypeKeys THEN Function ELSE Undefined

mapStatusToInt(statusString) ==
  IF TypeOf(statusString) = "number" THEN statusString
  ELSE IF TypeOf(statusString) = "string"
       THEN Or(LabelToCode(ToPropertyKey(statusString)), Num("1"))
       ELSE Num("1")

mapStatusToString(statusInt) ==
  Or(CodeToLabel(ToPropertyKey(statusInt)), Str("Pending"))

\* SpecBooking keeps at most this many rows in table pobooking.
MaxBookings == 2

\* The values the codec and req.body.status range over.
StatusInputs ==
  {Str(StatusLabels[i]) : i \in DOMAIN StatusLabels}
    \cup {Num(StatusCodes[i]) : i \in DOMAIN StatusCodes}
    \cup {Str("bogus"), Str("3"), Str("constructor"),
          Num("0"), Num("7"), Num("2.5"), JsNull, Undefined}

\* The statuses the booking requests carry.
BookingStatuses ==
  {Str("Confirmed"), Str("bogus"), Str("3"), Str("constructor"),
   Num("4"), Num("0"), Num("7"), Num("2.5"), Undefined}

\* Whether the store takes the parameter for the column status INT: a number
\* must be whole; a function is sent as its source text, which is no integer.
IsInteger(value) == value.type = "number" /\ value.text[1] # "2.5"

\* The codec applied to a value.
MapStatusToInt ==
  /\ \E v \in StatusInputs :
       res' = [route |-> "mapStatusToInt", input |-> v, output |-> mapStatusToInt(v)]
  /\ UNCHANGED NoStore

MapStatusToString ==
  /\ \E v \in StatusInputs :
       res' = [route |-> "mapStatusToString", input |-> v,
               output |-> mapStatusToString(v)]
  /\ UNCHANGED NoStore

\* POST /api/po-bookings with a bookingreference and without an orderid: one
\* INSERT INTO pobooking with status mapStatusToInt(status).
CreateBooking ==
  /\ Len(pobooking) < MaxBookings
  /\ \E status \in BookingStatuses :
       IF IsInteger(mapStatusToInt(status))
       THEN /\ pobooking' = Append(pobooking, [status |-> mapStatusToInt(status)])
            /\ res' = [route |-> "POST /api/po-bookings", input |-> status,
                       status |-> 201]
       ELSE /\ UNCHANGED pobooking
            /\ res' = [route |-> "POST /api/po-bookings", input |-> status,
                       status |-> 500]
  /\ UNCHANGED <<milestones, communications, orders, poinvoice, client, started,
                 process>>

\* PUT /api/po-bookings/:bookingId with a bookingreference: one UPDATE
\* pobooking SET ... status = mapStatusToInt(status) WHERE pobookingid = $1; an
\* id that matches no row is answered 200 too.
UpdateBooking ==
  /\ \E bookingId \in 1..MaxBookings, status \in BookingStatuses :
       IF IsInteger(mapStatusToInt(status))
       THEN /\ pobooking' =
                 IF bookingId \in DOMAIN pobooking
                 THEN [pobooking EXCEPT ![bookingId].status = mapStatusToInt(status)]
                 ELSE pobooking
            /\ res' = [route |-> "PUT /api/po-bookings/:bookingId",
                       input |-> status, status |-> 200]
       ELSE /\ UNCHANGED pobooking
            /\ res' = [route |-> "PUT /api/po-bookings/:bookingId",
                       input |-> status, status |-> 500]
  /\ UNCHANGED <<milestones, communications, orders, poinvoice, client, started,
                 process>>

NextBooking == MapStatusToInt \/ MapStatusToString \/ CreateBooking \/ UpdateBooking

SpecBooking == Init /\ [][NextBooking]_vars

(***************************************************************************)
(* SpecInvoice: the endpoints that write poinvoice.expectedstockstatus     *)
(* next to the five actions, one request at a time                         *)
(***************************************************************************)
validStatuses == {"planning", "confirmed", "shipped", "arrived", "completed"}

\* The invoice ids the requests name; 4 has no row in table poinvoice.
InvoiceIds == {1, 4}

\* The expected stock statuses the requests carry; "" is an absent field.
StockStatuses == {"shipped", "lost", ""}

\* PUT /api/expected-stock-status/:invoiceId
SetExpectedStockStatus(invoiceId, status) ==
  /\ IF status \notin validStatuses
     THEN /\ res' = [route |-> "PUT /api/expected-stock-status/:invoiceId",
                     invoiceId |-> invoiceId, input |-> status, status |-> 400]
          /\ UNCHANGED poinvoice
     ELSE IF invoiceId \notin DOMAIN poinvoice
          THEN /\ res' = [route |-> "PUT /api/expected-stock-status/:invoiceId",
                          invoiceId |-> invoiceId, input |-> status, status |-> 404]
               /\ UNCHANGED poinvoice
          ELSE /\ res' = [route |-> "PUT /api/expected-stock-status/:invoiceId",
                          invoiceId |-> invoiceId, input |-> status, status |-> 200]
               /\ poinvoice' = [poinvoice EXCEPT
                                  ![invoiceId].expectedstockstatus = status]
  /\ UNCHANGED <<milestones, communications, orders, client, started, process,
                 pobooking>>

\* PUT /api/po-invoices/:invoiceId: UPDATE poinvoice SET ..., expectedstockstatus
\* = $32 WHERE poinvoiceid = $1, with $32 = invoiceData.expectedstockstatus ||
\* 'planning'; an id that matches no row is answered 200 too.
UpdateInvoice(invoiceId, status) ==
  /\ poinvoice' =
       IF invoiceId \in DOMAIN poinvoice
       THEN [poinvoice EXCEPT ![invoiceId].expectedstockstatus =
                                IF status = "" THEN "planning" ELSE status]
       ELSE poinvoice
  /\ res' = [route |-> "PUT /api/po-invoices/:invoiceId",
             invoiceId |-> invoiceId, input |-> status, status |-> 200]
  /\ UNCHANGED <<milestones, communications, orders, client, started, process,
                 pobooking>>

NextInvoice ==
  \/ \E route \in Routes : Action(route)
  \/ \E invoiceId \in InvoiceIds, status \in StockStatuses :
       SetExpectedStockStatus(invoiceId, status)
  \/ \E invoiceId \in InvoiceIds, status \in StockStatuses :
       UpdateInvoice(invoiceId, status)

SpecInvoice == Init /\ [][NextInvoice]_vars

(***************************************************************************)
(* Properties                                                              *)
(***************************************************************************)
Tables == <<milestones, communications, orders, poinvoice>>

\* The milestone types an order has a completed row of.
CompletedTypes(o) ==
  {milestones[o][i].milestonetype :
     i \in {j \in DOMAIN milestones[o] : milestones[o][j].status = "completed"}}

\* The first n types of the chain.
ChainPrefix(n) == {Chain[i] : i \in 1..n}

\* Whether order o had, before the step, a completed row of the given type.
Completed(o, type) ==
  /\ o \in DOMAIN milestones
  /\ type \in CompletedTypes(o)

\* In Spec every step serves one request, the one res' names.
Served(route) == res'.route = route

\* C1: for every order, in every state reachable by any interleaving of the
\* five milestone actions, the set of milestone types with a completed row is
\* a contiguous prefix of the canonical chain.
C1_PrefixInvariant ==
  \A o \in DOMAIN milestones :
    \E n \in 0..Len(Chain) : CompletedTypes(o) = ChainPrefix(n)

\* Order 2, which starts with no milestones, has been taken three milestones
\* along the chain by the requests.
C1_Witness ==
  /\ CompletedTypes(2) = ChainPrefix(3)
  /\ res.status = 200

\* C2: a ready-to-ship, goods-shipped, goods-arrived or goods-received request
\* for an order without a completed milestone of the type before its own is
\* answered 400, and the four tables are the same after it as before it.
C2_MissingPredecessorRefused ==
  [][\A route \in Routes \ {"confirm-order"} :
       (/\ res'.route = route
        /\ \E i \in 1..(Len(Chain) - 1) :
             /\ MilestoneType(route) = Chain[i + 1]
             /\ ~Completed(res'.orderid, Chain[i]))
       => (res'.status = 400 /\ UNCHANGED Tables)]_vars

\* Scenario A: order 1 is confirmed and ready to ship, goods-arrived was asked
\* for it and refused.
C2_Witness ==
  /\ res.route = "goods-arrived"
  /\ res.orderid = 1
  /\ res.status = 400
  /\ CompletedTypes(1) = ChainPrefix(2)

\* C3: an action invoked for an order that already has a completed milestone of
\* the action's type is answered 400 and writes nothing.
C3_DuplicateRefused ==
  [][\A route \in Routes :
       (res'.route = route /\ Completed(res'.orderid, MilestoneType(route)))
       => (res'.status = 400 /\ UNCHANGED Tables)]_vars

\* C4: every step leaves the tables as they were or persists all the writes of
\* one request: a milestone row, a communication, and the invoice and order
\* status the route sets. No failure leaves a part of them.
C4_AllOrNothing ==
  [][\/ UNCHANGED Tables
     \/ \E c \in Clients :
          LET r == client[c].route
              o == client[c].orderid
              u == client[c].userid
          IN  /\ client[c].pc = "COMMIT"
              /\ res'.status = 200
              /\ Len(milestones'[o]) = Len(milestones[o]) + 1
              /\ milestones'[o][Len(milestones'[o])].milestonetype = MilestoneType(r)
              /\ Len(communications'[o]) = Len(communications[o]) + 1
              /\ \A i \in DOMAIN poinvoice :
                   poinvoice[i].orderid = o /\ r # "confirm-order"
                   => poinvoice'[i].expectedstockstatus = InvoiceStatus(r)
              /\ r \in {"confirm-order", "goods-shipped", "goods-received"}
                 => orders'[o] = OrderStatus(r)]_vars

\* A goods-shipped transaction has updated the invoices and inserted its
\* milestone, then a query failed: it is in its catch block, and no invoice
\* carries 'shipped'.
C4_Witness ==
  \E c \in Clients :
    /\ client[c].pc = "catch"
    /\ client[c].route = "goods-shipped"
    /\ client[c].k >= 2
    /\ \A i \in DOMAIN poinvoice : poinvoice[i].expectedstockstatus # "shipped"

\* C5: two concurrent requests for the same action on the same order never
\* both pass the check and insert. A confirm-order that starts after another
\* has committed is refused by its check, so two order_confirmed rows of one
\* order are two requests that ran concurrently and both committed.
C5_OneOfTwoInserts ==
  \A o \in DOMAIN milestones :
    Cardinality({i \in DOMAIN milestones[o] :
                   milestones[o][i].milestonetype = "order_confirmed"}) <= 1

\* C6: the store holds at most one milestone row per (orderid, milestonetype):
\* it rejects a second one.
C6_UniquePerOrderAndType ==
  \A o \in DOMAIN milestones :
    \A i, j \in DOMAIN milestones[o] :
      milestones[o][i].milestonetype = milestones[o][j].milestonetype => i = j

\* The rows of an order are exactly the first n milestones of the chain, once
\* each, in chain order.
ExactlyChain(o, n) ==
  /\ Len(milestones[o]) = n
  /\ \A i \in 1..n : /\ milestones[o][i].milestonetype = Chain[i]
                     /\ milestones[o][i].status = "completed"

\* C7: from an order with no milestones, the five actions invoked in chain
\* order each answer 200 and each add exactly one row of their type, completed,
\* with completedbyuserid the caller's userid; the fifth leaves all five types
\* completed.
C7_ChainInOrderSucceeds ==
  [][\A o \in DOMAIN milestones, n \in 0..(Len(Chain) - 1) :
       (ExactlyChain(o, n) /\ Served(RouteOf[n + 1]) /\ res'.orderid = o)
       => /\ res'.status = 200
          /\ Len(milestones'[o]) = n + 1
          /\ SubSeq(milestones'[o], 1, n) = milestones[o]
          /\ milestones'[o][n + 1].milestonetype = Chain[n + 1]
          /\ milestones'[o][n + 1].status = "completed"
          /\ milestones'[o][n + 1].completedbyuserid = res'.userid
          /\ n + 1 = Len(Chain) => CompletedTypes(o)' = ChainPrefix(Len(Chain))]_vars

\* Order 1 went through the whole chain, one row per type, the last step by
\* user 8 after a first step by user 7.
C7_Witness ==
  /\ ExactlyChain(1, Len(Chain))
  /\ res.route = "goods-received"
  /\ res.status = 200
  /\ milestones[1][1].completedbyuserid = 7
  /\ milestones[1][Len(Chain)].completedbyuserid = 8

\* The expectedstockstatus the specification gives for each route.
ExpectedInvoiceStatus ==
  [r \in Routes \ {"confirm-order"} |->
     CASE r = "ready-to-ship"  -> "confirmed"
       [] r = "goods-shipped"  -> "shipped"
       [] r = "goods-arrived"  -> "arrived"
       [] r = "goods-received" -> "completed"]

\* C8: a successful ready-to-ship, goods-shipped, goods-arrived or
\* goods-received sets expectedstockstatus of every invoice of that order, and
\* of no other order, to confirmed, shipped, arrived or completed; a successful
\* confirm-order leaves every invoice unchanged.
C8_InvoiceCascade ==
  [][res'.status = 200
     => IF res'.route = "confirm-order" THEN UNCHANGED poinvoice
        ELSE \A i \in DOMAIN poinvoice :
               poinvoice'[i] =
                 IF poinvoice[i].orderid = res'.orderid
                 THEN [orderid |-> poinvoice[i].orderid,
                       expectedstockstatus |-> ExpectedInvoiceStatus[res'.route]]
                 ELSE poinvoice[i]]_vars

\* goods-shipped succeeded for order 1: its two invoices are 'shipped', the
\* invoice of order 2 still has the status ready-to-ship gave it.
C8_Witness ==
  /\ res.route = "goods-shipped"
  /\ res.orderid = 1
  /\ res.status = 200
  /\ poinvoice[1].expectedstockstatus = "shipped"
  /\ poinvoice[2].expectedstockstatus = "shipped"
  /\ poinvoice[3].expectedstockstatus = "confirmed"

\* C9: a successful confirm-order, goods-shipped or goods-received sets the
\* order's status to Confirmed, Shipped or Completed; a successful ready-to-ship
\* or goods-arrived leaves it unchanged; no action changes another order's
\* status.
C9_OrderCascade ==
  [][res'.status = 200
     => \A o \in DOMAIN orders :
          orders'[o] =
            IF o # res'.orderid THEN orders[o]
            ELSE CASE res'.route = "confirm-order"  -> "Confirmed"
                   [] res'.route = "goods-shipped"  -> "Shipped"
                   [] res'.route = "goods-received" -> "Completed"
                   [] OTHER                         -> orders[o]]_vars

\* goods-arrived succeeded for order 1, whose status stays Shipped, while
\* order 2 is Confirmed.
C9_Witness ==
  /\ res.route = "goods-arrived"
  /\ res.orderid = 1
  /\ res.status = 200
  /\ orders[1] = "Shipped"
  /\ orders[2] = "Confirmed"

\* C10: a successful action appends exactly one communication of type
\* milestone_update for its order and user and touches no other order's
\* communications; an action answered otherwise inserts none; and every order
\* has as many milestone_update communications as milestone rows.
C10_OneCommunicationPerMilestone ==
  [][res'.route \in Routes
     => /\ IF res'.status = 200
           THEN /\ Len(communications'[res'.orderid])
                     = Len(communications[res'.orderid]) + 1
                /\ SubSeq(communications'[res'.orderid], 1,
                          Len(communications[res'.orderid]))
                     = communications[res'.orderid]
                /\ LET m == communications'[res'.orderid]
                                           [Len(communications'[res'.orderid])]
                   IN  /\ m.messagetype = "milestone_update"
                       /\ m.orderid = res'.orderid
                       /\ m.userid = res'.userid
                /\ \A o \in DOMAIN communications \ {res'.orderid} :
                     communications'[o] = communications[o]
           ELSE UNCHANGED communications
        /\ \A o \in DOMAIN communications :
             Cardinality({i \in DOMAIN communications'[o] :
                            communications'[o][i].messagetype = "milestone_update"})
               = Len(milestones'[o])]_vars

\* Order 1 has three milestones and three communications, the last one by
\* user 8, and the last request, a confirm-order for the unknown order 3,
\* failed and added none.
C10_Witness ==
  /\ Len(milestones[1]) = 3
  /\ Len(communications[1]) = 3
  /\ communications[1][3].userid = 8
  /\ res.orderid = 3
  /\ res.status = 500

\* C11: each of the five milestone actions, called with orderid or userid
\* missing from the request body, is answered 400 and writes nothing.
C11_MissingFieldRefused ==
  [][(res'.route \in Routes /\ (res'.orderid = Missing \/ res'.userid = Missing))
     => (res'.status = 400 /\ UNCHANGED Tables)]_vars

\* C12 as stated: once a milestone row has status 'completed', no operation,
\* PUT /api/milestones/:milestoneId included, changes its status to another
\* value or clears its completed date.
C12_CompletedStaysCompleted ==
  [][\A o \in DOMAIN milestones : \A i \in DOMAIN milestones[o] :
       milestones[o][i].status = "completed"
       => /\ i \in DOMAIN milestones'[o]
          /\ milestones'[o][i].status = "completed"
          /\ milestones'[o][i].completeddate # Null]_vars

\* C12, amended: a completed milestone row keeps its status and its completed
\* date through every milestone action, every POST /api/milestones and every
\* GET /api/milestones; the one operation that un-completes it is a PUT
\* /api/milestones/:milestoneId naming that row with a status other than
\* 'completed', which sets that status and clears the completed date.
C12_OnlyPutUncompletes ==
  [][\A o \in DOMAIN milestones : \A i \in DOMAIN milestones[o] :
       milestones[o][i].status = "completed"
       => /\ i \in DOMAIN milestones'[o]
          /\ \/ /\ milestones'[o][i].status = "completed"
                /\ milestones'[o][i].completeddate # Null
             \/ /\ res'.route = "PUT /api/milestones/:milestoneId"
                /\ res'.orderid = o
                /\ res'.milestoneid = i
                /\ res'.status = 200
                /\ milestones'[o][i].status \in ManualStatuses \ {"completed"}
                /\ milestones'[o][i].completeddate = Null]_vars

\* A ready_to_ship row, which only the ready-to-ship action inserts and
\* inserts completed, was set back to pending by a PUT.
C12_Witness ==
  /\ res.route = "PUT /api/milestones/:milestoneId"
  /\ res.milestoneid \in DOMAIN milestones[1]
  /\ milestones[1][res.milestoneid].milestonetype = "ready_to_ship"
  /\ milestones[1][res.milestoneid].status = "pending"
  /\ milestones[1][res.milestoneid].completeddate = Null

\* C13: in every state reachable by the five milestone actions and POST
\* /api/milestones, an order has at most one milestone row of each type.
C13_OneRowPerType ==
  \A o \in DOMAIN milestones : \A type \in {Chain[k] : k \in DOMAIN Chain} :
    Count(milestones[o], type, FALSE) <= 1

\* C14: GET /api/milestones for an order answers 200 with exactly the rows of
\* that order whose isvisible is true, in the order they were created (not
\* in the order of the chain), and changes no table; without an orderid it
\* answers 400.
C14_ListVisibleInCreationOrder ==
  [][res'.route = "GET /api/milestones"
     => /\ UNCHANGED Tables
        /\ IF res'.orderid = Missing
           THEN res'.status = 400
           ELSE /\ res'.status = 200
                /\ res'.body = SelectSeq(milestones[res'.orderid],
                                         LAMBDA r : r.isvisible)]_vars

\* Order 1 has a hidden row, then a manual goods_received row, then its
\* order_confirmed row; the list answered the last two, in that order.
C14_Witness ==
  /\ res.route = "GET /api/milestones"
  /\ res.status = 200
  /\ Len(milestones[1]) = 3
  /\ ~milestones[1][1].isvisible
  /\ Len(res.body) = 2
  /\ res.body[1].milestonetype = "goods_received"
  /\ res.body[2].milestonetype = "order_confirmed"

\* C15: a milestone action invoked for an orderid that has no order is
\* answered 404 and writes nothing.
C15_UnknownOrderNotFound ==
  [][(res'.route \in Routes /\ res'.orderid \notin DOMAIN orders)
     => (res'.status = 404 /\ UNCHANGED Tables)]_vars

\* The document without its securityHash property.
Unsealed(d) == Delete(d, "securityHash")

\* C16: for every payload p, verifying p with generateSecurityHash(p)
\* attached as securityHash returns isValid = true.
C16_SealedVerifies ==
  (/\ res.route = "verifySecurityHash"
   /\ Get(res.input, "securityHash") = generateSecurityHash(Unsealed(res.input)))
  => res.output.isValid = TRUE

\* The packing list VPL-2 / CIF / 11, built with its keys in reverse order,
\* was verified with its own seal and found valid.
C16_Witness ==
  /\ res.route = "verifySecurityHash"
  /\ Unsealed(res.input) = VplData("VPL-2", "CIF", "11", TRUE, TRUE)
  /\ Get(res.input, "securityHash") = generateSecurityHash(Unsealed(res.input))
  /\ res.output.isValid = TRUE

\* The number of scalar fields, at any depth, in which two JSON values of the
\* same shape differ; 2 (more than one) when their shapes differ.
RECURSIVE Differences(_, _)
RECURSIVE DifferencesFrom(_, _, _)
Differences(a, b) ==
  CASE a.type \in {"string", "number"} /\ b.type \in {"string", "number"} ->
         IF a = b THEN 0 ELSE 1
    [] a.type = "array" /\ b.type = "array" /\ Len(a.items) = Len(b.items) ->
         DifferencesFrom(a.items, b.items, 1)
    [] a.type = "object" /\ b.type = "object" /\ Keys(a) = Keys(b) ->
         DifferencesFrom([i \in DOMAIN a.props |-> a.props[i].value],
                         [i \in DOMAIN b.props |-> b.props[i].value], 1)
    [] OTHER -> 2

DifferencesFrom(as, bs, i) ==
  IF i > Len(as) THEN 0
  ELSE Differences(as[i], bs[i]) + DifferencesFrom(as, bs, i + 1)

\* C17: a packing list is sealed; a copy that differs from it in exactly one
\* scalar field other than securityHash, at any depth, and carries its seal is
\* verified: the result is isValid = false.
C17_TamperingDetected ==
  [][(/\ res.route = "generateSecurityHash"
      /\ res'.route \in {"verifySecurityHash", "POST /api/verify-vpl"}
      /\ res'.input # Undefined
      /\ Get(res'.input, "securityHash") = res.output
      /\ Differences(Unsealed(res.input), Unsealed(res'.input)) = 1)
     => (/\ "isValid" \in DOMAIN res'.output
         /\ res'.output.isValid = FALSE)]_vars

\* Whether two JSON values have the same keys and values at every depth,
\* whatever the order their objects' keys were inserted in.
RECURSIVE SameContent(_, _)
SameContent(a, b) ==
  CASE a.type = "array" /\ b.type = "array" ->
         /\ Len(a.items) = Len(b.items)
         /\ \A i \in DOMAIN a.items : SameContent(a.items[i], b.items[i])
    [] a.type = "object" /\ b.type = "object" ->
         /\ ToSet(Keys(a)) = ToSet(Keys(b))
         /\ \A k \in ToSet(Keys(a)) : SameContent(Get(a, k), Get(b, k))
    [] OTHER -> a = b

\* C18: two payloads with the same keys and values at every depth, built with
\* their keys inserted in different orders at the top level or inside nested
\* objects, get the same seal from generateSecurityHash.
C18_KeyOrderIrrelevant ==
  [][(/\ res.route = "generateSecurityHash"
      /\ res'.route = "generateSecurityHash"
      /\ SameContent(res.input, res'.input))
     => res'.output = res.output]_vars

\* The packing list VPL-1 / FOB / 10 built with its keys in reverse order at
\* both levels was sealed, and its seal is that of the one built in forward
\* order.
C18_Witness ==
  /\ res.route = "generateSecurityHash"
  /\ res.input = VplData("VPL-1", "FOB", "10", TRUE, TRUE)
  /\ res.input # VplData("VPL-1", "FOB", "10", FALSE, FALSE)
  /\ res.output = generateSecurityHash(VplData("VPL-1", "FOB", "10", FALSE, FALSE))

\* C19: generateSecurityHash gives a payload carrying any securityHash the
\* seal it gives the payload without one.
C19_SealIgnoresCarriedHash ==
  [][(/\ res.route = "generateSecurityHash"
      /\ res'.route = "generateSecurityHash"
      /\ Unsealed(res.input) = Unsealed(res'.input))
     => res'.output = res.output]_vars

\* A packing list carrying the number 12345 as securityHash was sealed, and
\* its seal is that of the packing list without a securityHash.
C19_Witness ==
  /\ res.route = "generateSecurityHash"
  /\ Get(res.input, "securityHash") = Num("12345")
  /\ res.output = generateSecurityHash(Unsealed(res.input))

\* C20: for a document whose carried seal differs from the recomputed one,
\* verifySecurityHash returns isValid = false with the provided and the
\* computed seal, and POST /api/verify-vpl answers isValid: false, not 500.
C20_MismatchIsOrdinary ==
  /\ (/\ res.route = "verifySecurityHash"
      /\ Has(res.input, "securityHash")
      /\ Get(res.input, "securityHash") # generateSecurityHash(Unsealed(res.input)))
     => res.output = [isValid |-> FALSE,
                      uploadedHash |-> Get(res.input, "securityHash"),
                      calculatedHash |-> generateSecurityHash(Unsealed(res.input))]
  /\ (/\ res.route = "POST /api/verify-vpl"
      /\ res.input # Undefined
      /\ ~Falsy(Get(res.input, "securityHash"))
      /\ Get(res.input, "securityHash") # generateSecurityHash(Unsealed(res.input)))
     => (/\ res.output.status # 500
         /\ "isValid" \in DOMAIN res.output
         /\ res.output.isValid = FALSE)

\* C21: a process started without VPL_SECRET_KEY never reaches the serving
\* state, and no seal is generated or verified with the compiled-in key.
C21_NoDefaultKey ==
  /\ process.pc = "listening" => ~Falsy(process.env.VPL_SECRET_KEY)
  /\ res.route \in {"generateSecurityHash", "verifySecurityHash",
                    "POST /api/verify-vpl"}
     => VPL_SECRET_KEY # DefaultKey

\* The five codes and the five labels, as values.
Codes == {Num(StatusCodes[i]) : i \in DOMAIN StatusCodes}
Labels == {Str(StatusLabels[i]) : i \in DOMAIN StatusLabels}

\* C22: mapStatusToInt(mapStatusToString(c)) = c for each code c of 1..5, and
\* mapStatusToString(mapStatusToInt(l)) = l for each of the five labels.
C22_CodecRoundTrip ==
  [][/\ (/\ res.route = "mapStatusToString"
         /\ res.input \in Codes
         /\ res'.route = "mapStatusToInt"
         /\ res'.input = res.output)
        => res'.output = res.input
     /\ (/\ res.route = "mapStatusToInt"
         /\ res.input \in Labels
         /\ res'.route = "mapStatusToString"
         /\ res'.input = res.output)
        => res'.output = res.input]_vars

\* mapStatusToInt was applied to 'In Transit', the label mapStatusToString
\* gives for 3, and returned 3.
C22_Witness ==
  /\ res.route = "mapStatusToInt"
  /\ res.input = mapStatusToString(Num("3"))
  /\ res.input = Str("In Transit")
  /\ res.output = Num("3")

\* C23: mapStatusToInt returns a number unchanged, the code of a recognized
\* label, and 1 for every other input; mapStatusToString returns the label of
\* a code in 1..5 and 'Pending' for every other code.
C23_CodecTotal ==
  /\ res.route = "mapStatusToInt"
     => res.output =
          IF res.input.type = "number" THEN res.input
          ELSE IF res.input \in Labels
               THEN Num(StatusCodes[CHOOSE i \in DOMAIN StatusLabels :
                                      Str(StatusLabels[i]) = res.input])
               ELSE Num("1")
  /\ (res.route = "mapStatusToString" /\ res.input.type # "string")
     => res.output =
          IF res.input \in Codes
          THEN Str(StatusLabels[CHOOSE i \in DOMAIN StatusCodes :
                                  Num(StatusCodes[i]) = res.input])
          ELSE Str("Pending")

\* C24: after any sequence of booking create and update requests, the status
\* of every booking is an integer of 1..5.
C24_BookingStatusInRange ==
  \A i \in DOMAIN pobooking : pobooking[i].status \in Codes

\* C25: after any sequence of milestone actions, expected-stock-status
\* updates and invoice updates, the expectedstockstatus of every invoice is
\* one of planning, confirmed, shipped, arrived, completed; a PUT
\* /api/expected-stock-status with another value is answered 400 and changes
\* nothing, and one for an unknown invoice is answered 404.
C25_StockStatusValid ==
  [][/\ \A i \in DOMAIN poinvoice' :
          poinvoice'[i].expectedstockstatus
            \in {"planning", "confirmed", "shipped", "arrived", "completed"}
     /\ res'.route = "PUT /api/expected-stock-status/:invoiceId"
        => /\ res'.input \notin {"planning", "confirmed", "shipped", "arrived",
                                 "completed"}
              => (res'.status = 400 /\ UNCHANGED Tables)
           /\ (/\ res'.input \in {"planning", "confirmed", "shipped", "arrived",
                                  "completed"}
               /\ res'.invoiceId \notin DOMAIN poinvoice)
              => (res'.status = 404 /\ UNCHANGED Tables)]_vars

\* C26: after any sequence of POST /api/milestones, PUT
\* /api/milestones/:milestoneId and the five milestone actions, the completed
\* milestone types of every order are a contiguous prefix of the chain.
C26_PrefixUnderManualEndpoints ==
  \A o \in DOMAIN milestones :
    \E n \in 0..Len(Chain) :
      {milestones[o][i].milestonetype :
         i \in {j \in DOMAIN milestones[o] : milestones[o][j].status = "completed"}}
        = {Chain[k] : k \in 1..n}

\* The place of a status on its path.
OrderRank(status) ==
  CASE status = "Pending" -> 0 [] status = "Confirmed" -> 1
    [] status = "Shipped" -> 2 [] status = "Completed" -> 3

InvoiceRank(status) ==
  CASE status = "planning" -> 0 [] status = "confirmed" -> 1
    [] status = "shipped" -> 2 [] status = "arrived" -> 3
    [] status = "completed" -> 4

\* C27: under any sequence of the five milestone actions, no order's status
\* moves backward along Pending, Confirmed, Shipped, Completed and no
\* invoice's expectedstockstatus moves backward along planning, confirmed,
\* shipped, arrived, completed.
C27_StatusNeverBackward ==
  [][/\ \A o \in DOMAIN orders : OrderRank(orders'[o]) >= OrderRank(orders[o])
     /\ \A i \in DOMAIN poinvoice :
          InvoiceRank(poinvoice'[i].expectedstockstatus)
            >= InvoiceRank(poinvoice[i].expectedstockstatus)]_vars

\* C28: confirm-order is refused only for an order with a completed
\* order_confirmed milestone, so no order is in a state where confirm-order
\* and ready-to-ship are both refused.
C28_PendingRowDoesNotBlock ==
  \A o \in DOMAIN milestones :
    /\ Rejected("confirm-order", milestones, o)
       => Count(milestones[o], "order_confirmed", TRUE) > 0
    /\ ~(/\ Rejected("confirm-order", milestones, o)
         /\ Rejected("ready-to-ship", milestones, o))

\* A step in which client c sends its response and returns to the pool.
Answers(c) == client[c].pc # "idle" /\ client'[c].pc = "idle"

\* C29: a milestone action answers 200 only in the step that commits its
\* transaction, and the tables then hold its milestone row; the tables change
\* in no other step, so a request answered 400 or 500 (a refusal, a failing
\* statement, a failing COMMIT or ROLLBACK) has left nothing in them.
C29_StatusAgreesWithState ==
  [][/\ \A c \in Clients :
          (Answers(c) /\ res'.status = 200)
          => LET o == client[c].orderid
             IN  /\ client[c].pc = "COMMIT"
                 /\ Len(milestones'[o]) = Len(milestones[o]) + 1
                 /\ milestones'[o][Len(milestones'[o])].milestonetype
                      = MilestoneType(client[c].route)
     /\ \A c \in Clients :
          (Answers(c) /\ res'.status \in {400, 500}) => UNCHANGED Tables
     /\ (\A c \in Clients : ~Answers(c)) => UNCHANGED Tables]_vars

\* A confirm-order for order 2 was answered 500 while another client's
\* transaction is still open: order 2 has no milestone and its order status is
\* untouched.
C29_Witness ==
  /\ res.route = "confirm-order"
  /\ res.orderid = 2
  /\ res.status = 500
  /\ milestones[2] = <<>>
  /\ orders[2] = EmptyDB.orders[2]
  /\ \E c \in Clients : client[c].pc = "COMMIT"

\* C30: every step in which a request gives its client back to the pool is a
\* step in which it sends a response (200, 400 or 500), on every path through
\* the handler, the failing ROLLBACK of the error handler included.
C30_ReleasedOnlyWithResponse ==
  [][\A c \in Clients : Answers(c) => res'.status \in {200, 400, 500}]_vars

====
